---- MODULE Spec2Model ----
(***************************************************************************)
(* The two classifier-evaluation notebooks (the lesson, src/unnamed/       *)
(* part_000, and the humor-styles lab) as a state machine over the kernel  *)
(* namespace: one action per code cell.  Cells are executed one at a time  *)
(* from top to bottom; a cell that raises binds nothing and the next cell  *)
(* can still be run (interactive execution, as the lab's stored outputs    *)
(* show).                                                                  *)
(*                                                                         *)
(* Numbers.  The counts are numpy integers.  A ratio is a numpy float64,   *)
(* computed as IEEE 754 computes it (round to nearest, ties to even); inf  *)
(* and nan are kept because numpy scalar division by zero warns and        *)
(* returns inf or nan instead of raising.  All quantities are              *)
(* non-negative, so only +inf occurs.                                      *)
(***************************************************************************)
EXTENDS Integers, Sequences, FiniteSets, TLC

VARIABLES nb, pc, bound, raised,
          y, knn_predictions, predicted,
          tp, fp, tn, fn,
          n_errors, printed_errors,
          accuracy, precision, recall, fpr, specificity,
          precision_1, recall_1, f1_1,
          hsq_gender, lr_predict, y_preds, C_M,
          alt_fpr,
          y_test, predict_proba, Y_pp, threshold, cutoff, printed_positives,
          conmat, tpr, roc_auc, printed_roc,
          spam, baseline_acc, basline_score,
          precision_0, recall_0, f1_0,
          average_precision, average_recall, average_f1,
          pred_Rlr, fpr_Rlr, tpr_Rlr, roc_auc_Rlr,
          Rlr_l1_predict, fpr_Rlr_l1, tpr_Rlr_l1, roc_auc_Rlr_l1

vars == <<nb, pc, bound, raised, y, knn_predictions, predicted,
          tp, fp, tn, fn, n_errors, printed_errors,
          accuracy, precision, recall, fpr, specificity,
          precision_1, recall_1, f1_1,
          hsq_gender, lr_predict, y_preds, C_M,
          alt_fpr,
          y_test, predict_proba, Y_pp, threshold, cutoff, printed_positives,
          conmat, tpr, roc_auc, printed_roc,
          spam, baseline_acc, basline_score,
          precision_0, recall_0, f1_0,
          average_precision, average_recall, average_f1,
          pred_Rlr, fpr_Rlr, tpr_Rlr, roc_auc_Rlr,
          Rlr_l1_predict, fpr_Rlr_l1, tpr_Rlr_l1, roc_auc_Rlr_l1>>

(***************************************************************************)
(* Bounds of the model.                                                    *)
(***************************************************************************)
\* longest label / prediction vector drawn for the lesson
MaxLen == 3
\* most rows of the humor-styles survey drawn for the lab
MaxRows == 5
\* most rows of X_test (labels and predicted probabilities) drawn
MaxScores == 3

(***************************************************************************)
(* Natural numbers of any size, as little-endian sequences of limbs in     *)
(* 0..Base-1 without leading zero limbs (<<>> is 0).  They carry the       *)
(* 53-bit significands of float64 values.                                  *)
(***************************************************************************)
LimbBits == 15
Base == 32768

Abs(u) == IF u < 0 THEN -u ELSE u

Rest(u) == IF u = <<>> THEN <<>> ELSE Tail(u)
Low(u) == IF u = <<>> THEN 0 ELSE Head(u)

\* the element of a one-element set: The({e(x) : x \in {v}}) is e(v), with v
\* evaluated once
The(s) == CHOOSE x \in s : TRUE

RECURSIVE BTrim(_)
BTrim(u) == IF u = <<>> THEN <<>>
            ELSE IF u[Len(u)] = 0 THEN BTrim(SubSeq(u, 1, Len(u) - 1))
            ELSE u

RECURSIVE BAddC(_, _, _)
BAddC(u, v, c) ==
    IF u = <<>> /\ v = <<>> THEN (IF c = 0 THEN <<>> ELSE <<c>>)
    ELSE LET s == Low(u) + Low(v) + c
         IN  <<s % Base>> \o BAddC(Rest(u), Rest(v), s \div Base)

BAdd(u, v) == BAddC(u, v, 0)

RECURSIVE BSubB(_, _, _)
BSubB(u, v, br) ==
    IF u = <<>> THEN <<>>
    ELSE LET d == Head(u) - Low(v) - br
         IN  <<IF d < 0 THEN d + Base ELSE d>>
                 \o BSubB(Tail(u), Rest(v), IF d < 0 THEN 1 ELSE 0)

\* u - v, for u >= v
BSub(u, v) == BTrim(BSubB(u, v, 0))

RECURSIVE BCmpTop(_, _, _)
BCmpTop(u, v, i) ==
    IF i = 0 THEN 0
    ELSE IF u[i] < v[i] THEN -1
    ELSE IF u[i] > v[i] THEN 1
    ELSE BCmpTop(u, v, i - 1)

\* -1, 0 or 1 as u < v, u = v or u > v
BCmp(u, v) ==
    IF Len(u) < Len(v) THEN -1
    ELSE IF Len(u) > Len(v) THEN 1
    ELSE BCmpTop(u, v, Len(u))

RECURSIVE BMulSmallC(_, _, _)
BMulSmallC(u, k, c) ==
    IF u = <<>> THEN (IF c = 0 THEN <<>> ELSE <<c>>)
    ELSE LET s == Head(u) * k + c
         IN  <<s % Base>> \o BMulSmallC(Tail(u), k, s \div Base)

\* u * Base
BUp(u) == IF u = <<>> THEN <<>> ELSE <<0>> \o u

RECURSIVE BMul(_, _)
BMul(u, v) ==
    IF u = <<>> \/ v = <<>> THEN <<>>
    ELSE BAdd(BMulSmallC(u, Head(v), 0), BUp(BMul(u, Tail(v))))

RECURSIVE BUpBy(_, _)
BUpBy(u, n) == IF n <= 0 THEN u ELSE BUpBy(BUp(u), n - 1)

\* u * 2^k, k >= 0
BShl(u, k) == BUpBy(BMulSmallC(u, 2^(k % LimbBits), 0), k \div LimbBits)

\* u \div 2^k, k >= 0
BShr(u, k) ==
    LET w == SubSeq(u, (k \div LimbBits) + 1, Len(u))
        b == 2^(k % LimbBits)
    IN  BTrim([i \in 1..Len(w) |->
                 (w[i] \div b) + (IF i < Len(w) THEN (w[i + 1] % b) * (Base \div b) ELSE 0)])

RECURSIVE SmallBitLen(_)
SmallBitLen(v) == IF v <= 0 THEN 0 ELSE 1 + SmallBitLen(v \div 2)

BBitLen(u) == IF u = <<>> THEN 0
              ELSE LimbBits * (Len(u) - 1) + SmallBitLen(u[Len(u)])

BOne == <<1>>

RECURSIVE DivBits(_, _, _, _)
\* n more quotient bits of r/d (r < d, n <= LimbBits): <<quotient, remainder>>
DivBits(r, d, q, n) ==
    IF n = 0 THEN <<q, r>>
    ELSE LET r2 == BAdd(r, r)
         IN  IF BCmp(r2, d) >= 0
             THEN DivBits(BSub(r2, d), d, 2 * q + 1, n - 1)
             ELSE DivBits(r2, d, 2 * q, n - 1)

RECURSIVE DivDigits(_, _, _)
\* n more quotient limbs of r/d (r < d): <<limbs, remainder>>
DivDigits(r, d, n) ==
    IF n = 0 THEN <<(<<>>), r>>
    ELSE LET s == DivBits(r, d, 0, LimbBits)
             t == DivDigits(s[2], d, n - 1)
         IN  <<t[1] \o <<s[1]>>, t[2]>>

(***************************************************************************)
(* numpy float64 values: the finite value m * 2^e with a 53-bit            *)
(* significand m (or 0), and the two special values inf and nan.           *)
(* Arithmetic is IEEE 754 binary64: the exact result rounded to nearest,   *)
(* ties to even.  The values the cells compute are far from the overflow   *)
(* and underflow thresholds, so the exponent is not bounded.               *)
(***************************************************************************)
Precision == 53

NaN == [k |-> "nan", m |-> <<>>, e |-> 0]
Inf == [k |-> "inf", m |-> <<>>, e |-> 0]
Zero == [k |-> "num", m |-> <<>>, e |-> 0]

IsNum(a) == a.k = "num"
IsZero(a) == a.k = "num" /\ a.m = <<>>

\* a significand that rounding carried to 2^Precision is renormalised
Normal(m, e) ==
    IF BBitLen(m) > Precision THEN [k |-> "num", m |-> BShr(m, 1), e |-> e + 1]
    ELSE [k |-> "num", m |-> m, e |-> e]

\* mant, the bits of num above its low sh > 0 bits, rounded to nearest by the
\* bits dropped, ties to even
Rounded(num, sh, mant, sticky) ==
    The({IF half > 0 \/ (half = 0 /\ (sticky \/ mant[1] % 2 = 1))
         THEN BAdd(mant, BOne) ELSE mant :
         half \in {BCmp(BSub(num, BShl(mant, sh)), BShl(BOne, sh - 1))}})

\* num * 2^e with the low sh bits of num rounded away
RoundBits(num, sh, sticky, e) ==
    IF sh <= 0 THEN [k |-> "num", m |-> BShl(num, -sh), e |-> e + sh]
    ELSE The({Normal(m, e + sh) :
              m \in {The({Rounded(num, sh, mant, sticky) :
                          mant \in {BShr(num, sh)}})}})

\* the float64 nearest to (num + t) * 2^e, for num > 0, where t is 0 or,
\* when sticky, a fraction strictly between 0 and 1 (sticky only with more
\* than Precision bits in num)
RoundNat(num, sticky, e) ==
    The({The({RoundBits(n, sh, sticky, e) : sh \in {BBitLen(n) - Precision}}) :
         n \in {num}})

\* limbs of quotient kept below the leading bit: more than Precision bits
FracLimbs == (Precision + LimbBits) \div LimbBits

\* num / den * 2^e for num / den in [1, 2): its leading bit and FracLimbs
\* more limbs of the quotient, rounded
RoundQuotient(num, den, e) ==
    The({RoundNat(qr[1] \o BOne, qr[2] # <<>>, e - FracLimbs * LimbBits) :
         qr \in {DivDigits(BSub(num, den), den, FracLimbs)}})

\* num / den * 2^e for num and den of one bit length
RoundAligned(num, den, e) ==
    The({RoundQuotient(IF lt THEN BAdd(num, num) ELSE num, den,
                       IF lt THEN e - 1 ELSE e) :
         lt \in {BCmp(num, den) < 0}})

\* the float64 nearest to (num / den) * 2^e, for num > 0 and den > 0
RoundRat(num, den, e) ==
    The({The({RoundAligned(n1, d1, e + sh) :
              n1 \in {IF sh < 0 THEN BShl(num, -sh) ELSE num},
              d1 \in {IF sh > 0 THEN BShl(den, sh) ELSE den}}) :
         sh \in {BBitLen(num) - BBitLen(den)}})

\* float(i) of a count
FromInt(i) == IF i = 0 THEN Zero ELSE RoundNat(<<i>>, FALSE, 0)

One == FromInt(1)
Two == FromInt(2)

MinExp(a, b) == IF a.e < b.e THEN a.e ELSE b.e

\* the significand of a at the exponent e0 <= a.e
Scaled(a, e0) == BShl(a.m, a.e - e0)

\* numpy scalar division: 0/0 is nan and x/0 is inf (a RuntimeWarning, no
\* exception); x/inf is 0
FDiv(a, b) ==
    CASE a.k = "nan" \/ b.k = "nan" -> NaN
      [] a.k = "inf" /\ b.k = "inf" -> NaN
      [] a.k = "inf" /\ b.k = "num" -> Inf
      [] a.k = "num" /\ b.k = "inf" -> Zero
      [] a.k = "num" /\ b.k = "num" /\ b.m = <<>> ->
            IF a.m = <<>> THEN NaN ELSE Inf
      [] a.k = "num" /\ b.k = "num" /\ b.m # <<>> /\ a.m = <<>> -> Zero
      [] OTHER -> RoundRat(a.m, b.m, a.e - b.e)

FAdd(a, b) ==
    CASE a.k = "nan" \/ b.k = "nan" -> NaN
      [] a.k = "inf" \/ b.k = "inf" -> Inf
      [] a.m = <<>> -> b
      [] b.m = <<>> -> a
      [] OTHER -> RoundNat(BAdd(Scaled(a, MinExp(a, b)), Scaled(b, MinExp(a, b))),
                           FALSE, MinExp(a, b))

\* a <= b on finite values (exact)
FLeq(a, b) ==
    IF a.m = <<>> THEN TRUE
    ELSE IF b.m = <<>> THEN FALSE
    ELSE BCmp(Scaled(a, MinExp(a, b)), Scaled(b, MinExp(a, b))) <= 0

\* a - b on finite values with a >= b
FSub(a, b) ==
    CASE a.k = "nan" \/ b.k = "nan" -> NaN
      [] b.m = <<>> -> a
      [] a = b -> Zero
      [] OTHER -> RoundNat(BSub(Scaled(a, MinExp(a, b)), Scaled(b, MinExp(a, b))),
                           FALSE, MinExp(a, b))

FMul(a, b) ==
    CASE a.k = "nan" \/ b.k = "nan" -> NaN
      [] a.k = "inf" /\ b.k = "num" /\ b.m = <<>> -> NaN
      [] b.k = "inf" /\ a.k = "num" /\ a.m = <<>> -> NaN
      [] a.k = "inf" \/ b.k = "inf" -> Inf
      [] a.m = <<>> \/ b.m = <<>> -> Zero
      [] OTHER -> RoundNat(BMul(a.m, b.m), FALSE, a.e + b.e)

FMin(a, b) == IF FLeq(a, b) THEN a ELSE b
FMax(a, b) == IF FLeq(a, b) THEN b ELSE a

(***************************************************************************)
(* Vectors.  A pandas Series is a record of its index (row ids) and its    *)
(* values; a numpy array is a sequence.                                    *)
(***************************************************************************)
Vectors(S, lo, hi) == UNION {[1..n -> S] : n \in lo..hi}

\* the function f as a table of its values, each computed once
Table(f) == f @@ <<>>

RangeIndex(n) == [i \in 1..n |-> i - 1]

Series(ix, vs) == [idx |-> ix, val |-> vs]

\* s == c, elementwise
EqMask(s, c) == [i \in 1..Len(s) |-> s[i] = c]

\* Series-with-ndarray operation: positional, the array broadcast when it has
\* one element
Broadcast(b, i) == IF Len(b) = 1 THEN b[1] ELSE b[i]

AndMask(a, b) == [i \in 1..Len(a) |-> a[i] /\ Broadcast(b, i)]

RECURSIVE NpSum(_)
NpSum(m) == IF m = <<>> THEN 0
            ELSE (IF Head(m) THEN 1 ELSE 0) + NpSum(Tail(m))

RECURSIVE SumSeq(_)
SumSeq(s) == IF s = <<>> THEN 0 ELSE Head(s) + SumSeq(Tail(s))

\* what an elementwise operation of a Series of length n with an array of
\* length m can do: equal lengths work; a one-element array is broadcast by
\* numpy (or refused by a pandas that checks lengths first); anything else
\* raises ValueError
ElementwiseOutcomes(n, m) ==
    IF n = m THEN {"ok"}
    ELSE IF m = 1 THEN {"ok", "ValueError"}
    ELSE {"ValueError"}

(***************************************************************************)
(* Lesson: the cells of src/unnamed/part_000.                              *)
(***************************************************************************)
\* np.abs(knn_predictions - y).sum()
AbsDiffSum(p, l) == SumSeq([i \in 1..Len(l) |-> Abs(Broadcast(p, i) - l[i])])

\* variant: the fp line written with the labels of the fn line
TallyFpSwapped(l, p) == NpSum(AndMask(EqMask(l, 1), EqMask(p, 0)))

\* variant: | for & in the fn line
TallyFnWithOr(l, p) ==
    NpSum([i \in 1..Len(l) |-> EqMask(l, 1)[i] \/ Broadcast(EqMask(p, 0), i)])

\* variant: the tn line without its prediction mask
TallyTnOfLabelOnly(l, p) == NpSum(EqMask(l, 0))

\* tp = np.sum((y == 1) & (predicted == 1))
TallyTp(l, p) == NpSum(AndMask(EqMask(l, 1), EqMask(p, 1)))
\* fp = np.sum((y == 0) & (predicted == 1))
TallyFp(l, p) == NpSum(AndMask(EqMask(l, 0), EqMask(p, 1)))
\* tn = np.sum((y == 0) & (predicted == 0))
TallyTn(l, p) == NpSum(AndMask(EqMask(l, 0), EqMask(p, 0)))
\* fn = np.sum((y == 1) & (predicted == 0))
TallyFn(l, p) == NpSum(AndMask(EqMask(l, 1), EqMask(p, 0)))

\* variant: integer division (the float() forgotten)
AccuracyFloorDiv(a, b, c, d) ==
    IF a + b + c + d = 0 THEN NaN ELSE FromInt((a + c) \div (a + b + c + d))

\* float(tp + tn) / total_population
AccuracyOf(a, b, c, d) == FDiv(FromInt(a + c), FromInt(a + b + c + d))

\* variant: the denominator without tp
PrecisionOverFp(a, b) == FDiv(FromInt(a), FromInt(b))

\* float(tp) / (tp + fp)
PrecisionOf(a, b) == FDiv(FromInt(a), FromInt(a + b))

\* float(tp) / (tp + fn)
RecallOf(a, d) == FDiv(FromInt(a), FromInt(a + d))

\* float(fp) / (tn + fp)
FprOf(b, c) == FDiv(FromInt(b), FromInt(c + b))

\* variant: an empty denominator reported as 0
SpecificityOrZero(b, c) == IF c + b = 0 THEN Zero ELSE FDiv(FromInt(c), FromInt(c + b))

\* float(tn) / (tn + fp)
SpecificityOf(b, c) == FDiv(FromInt(c), FromInt(c + b))

\* variant: the arithmetic mean for the harmonic mean
ArithmeticMean(r, p) == FDiv(FAdd(r, p), Two)

\* variant: the factor 2 dropped
HalfHarmonicMean(r, p) == FDiv(One, FAdd(FDiv(One, r), FDiv(One, p)))

\* f1_1 = 2/(1/recall_1+1/precision_1)
HarmonicMean(r, p) == FDiv(Two, FAdd(FDiv(One, r), FDiv(One, p)))

\* F1-Score = 2 * (Precision * Recall) / (Precision + Recall)
F1Formula(p, r) == FDiv(FMul(Two, FMul(p, r)), FAdd(p, r))

(***************************************************************************)
(* Lab: the cells of the humor-styles notebook.  gender: 1 = male,         *)
(* 2 = female, 3 = other, 0 = declined.                                    *)
(***************************************************************************)
KeepGender(v) == v # 0 /\ v # 3

RECURSIVE KeptIds(_)
\* the row ids (0-based, as read_csv numbers them) of the rows the filter keeps
KeptIds(g) ==
    IF g = <<>> THEN <<>>
    ELSE LET front == KeptIds(SubSeq(g, 1, Len(g) - 1))
         IN  IF KeepGender(g[Len(g)]) THEN Append(front, Len(g) - 1) ELSE front

\* df = hsq[hsq['gender'] != 0][hsq['gender'] != 3];  y = df['gender']:
\* the rows kept keep the row ids they had in hsq
GenderOf(g) ==
    LET ids == KeptIds(g)
    IN  Series(ids, [i \in 1..Len(ids) |-> g[ids[i] + 1]])

Ids(s) == {s.idx[i] : i \in 1..Len(s.idx)}

ValAt(s, id) == s.val[CHOOSE i \in 1..Len(s.idx) : s.idx[i] = id]

SeriesEq(s, c) == Series(s.idx, EqMask(s.val, c))

\* np.sum(a & b) of two boolean Series: pandas aligns them on the union of
\* their indexes and a row id missing on either side counts as False
AlignedAndSum(a, b) ==
    Cardinality({id \in Ids(a) \cap Ids(b) : ValAt(a, id) /\ ValAt(b, id)})

\* tp = np.sum((y == 2) & (y_preds == 2)), and the three cells beside it
LabTp(l, p) == AlignedAndSum(SeriesEq(l, 2), SeriesEq(p, 2))
LabFp(l, p) == AlignedAndSum(SeriesEq(l, 1), SeriesEq(p, 2))
LabTn(l, p) == AlignedAndSum(SeriesEq(l, 1), SeriesEq(p, 1))
LabFn(l, p) == AlignedAndSum(SeriesEq(l, 2), SeriesEq(p, 1))

Range(v) == {v[i] : i \in 1..Len(v)}

\* sklearn's confusion_matrix(y_true, y_pred): the arrays of values, paired by
\* position; rows are true labels, columns predicted labels, over the labels
\* that occur in either
ConfusionMatrix(t, p) ==
    [c \in (Range(t) \cup Range(p)) \X (Range(t) \cup Range(p)) |->
        Cardinality({i \in 1..Len(t) : t[i] = c[1] /\ p[i] = c[2]})]

\* the cell for true label a and predicted label b (0 when a label is absent)
Cell(cm, a, b) == IF <<a, b>> \in DOMAIN cm THEN cm[<<a, b>>] ELSE 0

(***************************************************************************)
(* Inputs.                                                                 *)
(***************************************************************************)
\* label and prediction values drawn for the lesson: the two classes and one
\* value outside them
LessonValues == {0, 1, 2}

\* the worked examples of the specification
ScenarioPairs ==
    { << <<1, 1, 0, 0, 1, 0>>, <<1, 0, 0, 1, 1, 0>> >>,
      << <<1, 1, 1, 1>>, <<1, 1, 1, 1>> >> }

\* longer vectors, on which the rounding of float64 shows
RoundingPairs ==
    { << <<1, 1, 1, 1>>, <<1, 1, 1, 0>> >>,
      << <<1, 1, 1, 1, 1, 1, 1, 1, 1, 0, 0>>, <<1, 1, 1, 1, 1, 1, 1, 0, 0, 1, 1>> >> }

LessonInputs ==
    (Vectors(LessonValues, 0, MaxLen) \X Vectors(LessonValues, 0, MaxLen))
        \cup ScenarioPairs \cup RoundingPairs

GenderValues == {0, 1, 2, 3}

CountOf(v, c) == Cardinality({i \in 1..Len(v) : v[i] = c})

\* train_test_split(..., stratify=y) and the fit accept y only when each of the
\* two classes has at least two members
Fittable(g) == CountOf(g, 1) >= 2 /\ CountOf(g, 2) >= 2

LabInputs ==
    {in \in Vectors(GenderValues, 0, MaxRows) \X Vectors({1, 2}, 0, MaxRows) :
        /\ Fittable(in[1])
        /\ Len(in[2]) = Len(KeptIds(in[1]))}

\* the length of the longest label vector drawn
MaxCount ==
    CHOOSE n \in {Len(in[1]) : in \in LessonInputs} :
        \A in \in LessonInputs : Len(in[1]) <= n

\* the float64 quotients of two counts
Quotients ==
    Table([q \in (0..MaxCount) \X (0..MaxCount) |->
              The({FDiv(n, d) : n \in {FromInt(q[1])}, d \in {FromInt(q[2])}})])

\* float(n) / d of two counts
Num(n, d) == Quotients[<<n, d>>]

\* 1 - v for the quotients v in [0, 1] (and nan)
Complements ==
    The({Table([v \in {qs[q] : q \in {r \in DOMAIN qs : r[1] <= r[2]}} |->
                   FSub(one, v)]) :
         qs \in {Quotients}, one \in {One}})

(***************************************************************************)
(* The classification report of the lesson: sklearn's scores of each class *)
(* and their averages weighted by baseline_acc.                            *)
(***************************************************************************)
\* spam.is_spam, a binary marker: the rows that y labels 1
IsSpam(labels) == [i \in 1..Len(labels) |-> IF labels[i] = 1 THEN 1 ELSE 0]

\* 1. - col.mean() of a column of zeros and ones: the mean is
\* float(sum) / count, nan for a column without rows
OneMinusMean(col) == Complements[Num(SumSeq(col), Len(col))]

\* the rows True in both masks, the True rows of t and the True rows of p
MaskCounts(t, p) == <<NpSum(AndMask(t, p)), NpSum(t), NpSum(p)>>

\* precision_score, recall_score and f1_score of two boolean arrays with the
\* counts c: a score without rows to divide by is 0.0 (with a warning), and
\* f1 is (1 + beta2) * precision * recall / (beta2 * precision + recall) with
\* beta2 = 1, set to 0.0 where no row is True in both
PrecisionScore(c) == IF c[3] = 0 THEN Zero ELSE Num(c[1], c[3])
RecallScoreOf(c) == IF c[2] = 0 THEN Zero ELSE Num(c[1], c[2])
F1ScoreOf(c) ==
    IF c[1] = 0 THEN Zero
    ELSE The({FDiv(FMul(FMul(Two, p), r), FAdd(p, r)) :
              p \in {PrecisionScore(c)}, r \in {RecallScoreOf(c)}})

\* variant: the two weights exchanged, baseline_acc*v1+(1-baseline_acc)*v0
WeightedAverageSwapped(b, v1, v0) ==
    The({FAdd(FMul(b, v1), FMul(w, v0)) : w \in {FSub(One, b)}})

\* (1-baseline_acc)*v1+baseline_acc*v0
WeightedAverage(b, v1, v0) ==
    The({FAdd(FMul(w, v1), FMul(b, v0)) : w \in {FSub(One, b)}})

\* the rebound y of the lesson's second data set: bcw['class'] mapped to 0, 1
BcwLabels == {<<0, 1>>, <<1, 0, 0>>}

\* the inputs of the cells that are run again after y is rebound
RerunInputs ==
    {in \in LessonInputs : Len(in[1]) \in 2..3 /\ Len(in[2]) = Len(in[1])
                             /\ Range(in[1]) = {0, 1} /\ Range(in[2]) \subseteq {0, 1}}

\* what the report cell reads: baseline_acc, and of each class the counts of
\* (y == c, predicted == c)
ReportKey(b, labels, predictions) ==
    <<b, MaskCounts(EqMask(labels, 1), EqMask(predictions, 1)),
         MaskCounts(EqMask(labels, 0), EqMask(predictions, 0))>>

ReportKeys ==
    {ReportKey(OneMinusMean(IsSpam(in[1])), in[1], in[2]) :
        in \in {i \in LessonInputs : Len(i[1]) = Len(i[2])}}
    \cup {ReportKey(OneMinusMean(IsSpam(p[1][1])), p[2], p[1][2]) :
              p \in {q \in RerunInputs \X BcwLabels : Len(q[2]) = Len(q[1][2])}}

\* what the report cell binds
ReportOf(b, c1, c0) ==
    [precision_1 |-> PrecisionScore(c1), precision_0 |-> PrecisionScore(c0),
     recall_1 |-> RecallScoreOf(c1), recall_0 |-> RecallScoreOf(c0),
     f1_1 |-> F1ScoreOf(c1), f1_0 |-> F1ScoreOf(c0),
     average_precision |-> WeightedAverage(b, PrecisionScore(c1), PrecisionScore(c0)),
     average_recall |-> WeightedAverage(b, RecallScoreOf(c1), RecallScoreOf(c0)),
     average_f1 |-> WeightedAverage(b, F1ScoreOf(c1), F1ScoreOf(c0))]

ReportValues == Table([k \in ReportKeys |-> ReportOf(k[1], k[2], k[3])])

(***************************************************************************)
(* The float arithmetic of the ratio cells depends on the four counts      *)
(* only, so it is evaluated once for each tally the inputs can produce     *)
(* and the cells read their results off CellValues.                        *)
(***************************************************************************)
\* the counts the tally cell can bind
Tallies ==
    {<<TallyTp(in[1], in[2]), TallyFp(in[1], in[2]),
       TallyTn(in[1], in[2]), TallyFn(in[1], in[2])>> :
        in \in {i \in LessonInputs :
                   "ok" \in ElementwiseOutcomes(Len(i[1]), Len(i[2]))}}

\* what each ratio cell binds when the counts are c = <<tp, fp, tn, fn>>
CellValues ==
    [c \in Tallies |->
        [accuracy |-> AccuracyOf(c[1], c[2], c[3], c[4]),
         precision |-> PrecisionOf(c[1], c[2]),
         recall |-> RecallOf(c[1], c[4]),
         fpr |-> FprOf(c[2], c[3]),
         specificity |-> SpecificityOf(c[2], c[3]),
         f1_1 |-> HarmonicMean(RecallOf(c[1], c[4]), PrecisionOf(c[1], c[2]))]]

\* sklearn's recall_score(t, p) of two boolean arrays of one length: the share
\* of the True entries of t that are True in p too, and 0.0 (with a warning)
\* when t has no True entry
RecallScore(t, p) ==
    IF NpSum(t) = 0 THEN Zero ELSE Num(NpSum(AndMask(t, p)), NpSum(t))

\* variant: the recall of class 0 itself, not its complement
RecallOfClassZero(l, p) == RecallScore(EqMask(l, 0), EqMask(p, 0))

\* 1 - recall_score(y==0, predicted==0)
AlternativeFpr(l, p) == Complements[RecallScore(EqMask(l, 0), EqMask(p, 0))]

(***************************************************************************)
(* Predicted probabilities and class assignment at a threshold.            *)
(***************************************************************************)
\* the float64 k/10, as the literal 0.1 is for k = 1
Tenth(k) == Num(k, 10)

\* the probabilities of the positive class that predict_proba returns
ProbaValues == {Tenth(k) : k \in {1, 3, 5, 7}}

\* the thresholds tried in the lesson: the 10% of its text, the default 50%
\* and one above every probability drawn
CutoffValues == {Tenth(k) : k \in {1, 5, 9}}

\* the labels of the test rows and the probabilities the fitted model gives
\* them: vectors of one length
ProbaInputs(labels, lo) ==
    {in \in Vectors(labels, lo, MaxScores) \X Vectors(ProbaValues, lo, MaxScores) :
        Len(in[1]) = Len(in[2])}

\* the worked ROC examples of the specification
RocScenarios ==
    {<<<<1, 0, 1, 0>>, [i \in 1..4 |-> Tenth(tenths[i])]>> :
        tenths \in {<<9, 1, 8, 2>>, <<5, 5, 5, 5>>}}

\* test rows on which the area under the curve is rounded: 1/3 of the pairs
\* ranked rightly, 4 pairs of 6 and a tie, and 2 pairs of 6 and two ties
RoundingScenarios ==
    {<<in[1], [i \in 1..Len(in[2]) |-> Tenth(in[2][i])]>> :
        in \in {<<<<0, 0, 0, 1>>, <<1, 1, 3, 1>>>>,
                <<<<0, 0, 0, 1, 1>>, <<1, 1, 5, 3, 5>>>>,
                <<<<0, 0, 1, 1, 1>>, <<1, 5, 1, 3, 5>>>>}}

\* the lesson: y_test holds classes 0 and 1
LessonProbaInputs ==
    ProbaInputs({0, 1}, 1) \cup RocScenarios \cup RoundingScenarios

\* the lab: the stratified split puts both genders (1 and 2) in y_test
LabProbaInputs == {in \in ProbaInputs({1, 2}, 2) : Range(in[1]) = {1, 2}}

\* lr_model.predict_proba(X_test) of a binary LogisticRegression: the columns
\* 1 - prob and prob, named 'male' and 'female'
PredictProba(prob) ==
    [male |-> [i \in 1..Len(prob) |-> Complements[prob[i]]], female |-> prob]

RECURSIVE FSum(_)
\* the float64 sum of fewer than 8 values: added left to right
FSum(v) ==
    IF v = <<>> THEN Zero
    ELSE FAdd(FSum(SubSeq(v, 1, Len(v) - 1)), v[Len(v)])

\* Series.mean()
Mean(v) == FDiv(FSum(v), FromInt(Len(v)))

\* the 'male' columns predict_proba can return
MaleColumns ==
    {PredictProba(prob).male : prob \in Vectors(ProbaValues, 1, MaxScores)}

\* threshold = Y_pp['male'].mean(), and the threshold - 0.1 the lab compares
\* the 'female' column with
Thresholds ==
    Table([v \in MaleColumns |->
              [threshold |-> Mean(v), cutoff |-> FSub(Mean(v), Tenth(1))]])

\* variant: a score equal to the threshold is predicted negative
ThresholdStrictly(scores, t) ==
    [i \in 1..Len(scores) |-> IF FLeq(scores[i], t) THEN 0 ELSE 1]

\* [1 if i >= t else 0 for i in scores]
ThresholdPredictions(scores, t) ==
    [i \in 1..Len(scores) |-> IF FLeq(t, scores[i]) THEN 1 ELSE 0]

\* variant: rows are the predicted labels and columns the true ones
ConfusionMatrixByPrediction(t, p, ls) ==
    [i \in 1..Len(ls) |-> [j \in 1..Len(ls) |->
        Cardinality({n \in 1..Len(t) : p[n] = ls[i] /\ t[n] = ls[j]})]]

\* confusion_matrix(t, p, labels=ls): row i is the true label ls[i], column j
\* the predicted label ls[j]
ConfusionMatrixOf(t, p, ls) ==
    [i \in 1..Len(ls) |-> [j \in 1..Len(ls) |->
        Cardinality({n \in 1..Len(t) : t[n] = ls[i] /\ p[n] = ls[j]})]]

(***************************************************************************)
(* sklearn.metrics.roc_curve and auc, as the library computes them.        *)
(***************************************************************************)
\* the scores a roc_curve call is given: a column of probabilities, the
\* column 1 - s of the opposite polarity, or the labels 1 and 2 a fitted model
\* predicts
ScoreValues ==
    The({given \cup {FSub(one, v) : v \in given} :
         given \in {UNION {{v, Complements[v]} : v \in ProbaValues}
                       \cup UNION {Range(in[2]) : in \in RocScenarios}},
         one \in {One}})
    \cup {FromInt(label) : label \in {1, 2}}

\* thresholds[0] + 1
PlusOne == The({Table([v \in ScoreValues |-> FAdd(v, one)]) : one \in {One}})

\* the place of each score among the scores, in increasing order: a > b
\* exactly when ScoreRank[a] > ScoreRank[b]
ScoreRank ==
    The({Table([v \in scores |-> Cardinality({w \in scores : FLeq(w, v)})]) :
         scores \in {ScoreValues}})

\* the array f with its entries evaluated
Array(f) == SubSeq(f, 1, Len(f))

\* variant: the scores in increasing order, without the reversal
BeforeIncreasing(ranks, i) ==
    Cardinality({j \in 1..Len(ranks) :
                    ranks[j] < ranks[i] \/ (ranks[j] = ranks[i] /\ j < i)})

\* how many entries np.argsort(y_score, kind="mergesort")[::-1] puts before
\* entry i: the larger scores, and the equal scores that come later
Before(ranks, i) ==
    Cardinality({j \in 1..Len(ranks) :
                    ranks[j] > ranks[i] \/ (ranks[j] = ranks[i] /\ j > i)})

\* desc_score_indices
DescScoreIndices(scores) ==
    The({[r \in 1..Len(ranks) |->
             CHOOSE i \in 1..Len(ranks) : Before(ranks, i) = r - 1] :
         ranks \in {Array([i \in 1..Len(scores) |-> ScoreRank[scores[i]]])}})

\* variant: scores on one side of 0.5 count as equal
ThresholdIdxsOfHalves(sorted) ==
    The({[k \in 1..Cardinality(keep) |->
             CHOOSE r \in keep : Cardinality({q \in keep : q < r}) = k - 1] :
         keep \in {{r \in 1..Len(sorted) :
                       \/ r = Len(sorted)
                       \/ FLeq(Tenth(5), sorted[r]) # FLeq(Tenth(5), sorted[r + 1])}}})

\* the positions (from 1) where np.diff(y_score) is not zero, and the last
\* position: threshold_idxs, in increasing order
ThresholdIdxs(sorted) ==
    The({[k \in 1..Cardinality(keep) |->
             CHOOSE r \in keep : Cardinality({q \in keep : q < r}) = k - 1] :
         keep \in {{r \in 1..Len(sorted) :
                       r = Len(sorted) \/ sorted[r] # sorted[r + 1]}}})

\* variant: the two counts exchanged, tps counting the negatives
ClfCurveOfNegatives(truth, sorted) ==
    The({[tps |-> Array([k \in 1..Len(tix) |->
                            tix[k] - NpSum(SubSeq(truth, 1, tix[k]))]),
          fps |-> Array([k \in 1..Len(tix) |-> NpSum(SubSeq(truth, 1, tix[k]))]),
          thresholds |-> Array([k \in 1..Len(tix) |-> sorted[tix[k]]])] :
         tix \in {Array(ThresholdIdxs(sorted))}})

\* tps = cumsum(y_true)[threshold_idxs], fps = 1 + threshold_idxs - tps (with
\* positions from 0) and thresholds = y_score[threshold_idxs]
ClfCurveOfSorted(truth, sorted) ==
    The({[fps |-> Array([k \in 1..Len(tix) |->
                            tix[k] - NpSum(SubSeq(truth, 1, tix[k]))]),
          tps |-> Array([k \in 1..Len(tix) |-> NpSum(SubSeq(truth, 1, tix[k]))]),
          thresholds |-> Array([k \in 1..Len(tix) |-> sorted[tix[k]]])] :
         tix \in {Array(ThresholdIdxs(sorted))}})

\* y_true = (y_true == pos_label) and y_score, both in the order idx
ClfCurveOfOrder(y_true, y_score, pos_label, idx) ==
    The({ClfCurveOfSorted(truth, sorted) :
         truth \in {Array([r \in 1..Len(idx) |-> y_true[idx[r]] = pos_label])},
         sorted \in {Array([r \in 1..Len(idx) |-> y_score[idx[r]]])}})

\* _binary_clf_curve(y_true, y_score, pos_label): at each distinct score, in
\* decreasing order, the positives and the negatives scored at least that
BinaryClfCurve(y_true, y_score, pos_label) ==
    The({ClfCurveOfOrder(y_true, y_score, pos_label, idx) :
         idx \in {Array(DescScoreIndices(y_score))}})

\* np.diff(v, 2) at position k
Diff2(v, k) == v[k + 2] - 2 * v[k + 1] + v[k]

\* drop_intermediate: with more than two points, the first, the last and
\* those where either count bends are kept
OptimalIdxs(c) ==
    IF Len(c.fps) > 2
    THEN {k \in 1..Len(c.fps) :
             \/ k = 1 \/ k = Len(c.fps)
             \/ Diff2(c.fps, k - 1) # 0 \/ Diff2(c.tps, k - 1) # 0}
    ELSE 1..Len(c.fps)

\* v[optimal_idxs]
Take(v, keep) ==
    [k \in 1..Cardinality(keep) |->
        v[CHOOSE r \in keep : Cardinality({q \in keep : q < r}) = k - 1]]

\* the releases of scikit-learn a Python 3.6 kernel can hold differ in the
\* extra first point: up to 0.19 it is added "if tps.size == 0 or fps[0] != 0",
\* from 0.20 on always
SklearnReleases == {"0.19", "0.20"}

\* variant: no release adds the extra first point
AddsOriginNever(release, fps) == FALSE

AddsOrigin(release, fps) == release = "0.20" \/ fps = <<>> \/ fps[1] # 0

\* fps / fps[-1], or nan everywhere (with a warning) when fps[-1] <= 0
Rates(counts) ==
    IF counts[Len(counts)] <= 0 THEN [k \in 1..Len(counts) |-> NaN]
    ELSE [k \in 1..Len(counts) |-> Num(counts[k], counts[Len(counts)])]

\* the rates of the points kept, after the extra first point
RocOfCounts(fps, tps, thr, org) ==
    [fpr |-> Array(Rates(IF org THEN <<0>> \o fps ELSE fps)),
     tpr |-> Array(Rates(IF org THEN <<0>> \o tps ELSE tps)),
     threshold |-> IF org THEN <<PlusOne[thr[1]]>> \o thr ELSE thr]

RocOfClfCurve(c, release) ==
    The({RocOfCounts(fps, tps, thr, AddsOrigin(release, fps)) :
         fps \in {Array(Take(c.fps, OptimalIdxs(c)))},
         tps \in {Array(Take(c.tps, OptimalIdxs(c)))},
         thr \in {Array(Take(c.thresholds, OptimalIdxs(c)))}})

\* roc_curve(y_true, y_score, pos_label) -> fpr, tpr, thresholds
RocCurve(y_true, y_score, pos_label, release) ==
    The({RocOfClfCurve(c, release) :
         c \in {BinaryClfCurve(y_true, y_score, pos_label)}})

\* variant: rectangles under the right end of each step, (d * y[1:]).sum()
TrapzRectangles(ys, xs) ==
    FSum([k \in 1..(Len(xs) - 1) |->
             The({FMul(d, ys[k + 1]) : d \in {FSub(xs[k + 1], xs[k])}})])

\* variant: rectangles under the left end of each step, (d * y[:-1]).sum()
TrapzLeftRectangles(ys, xs) ==
    FSum([k \in 1..(Len(xs) - 1) |->
             The({FMul(d, ys[k]) : d \in {FSub(xs[k + 1], xs[k])}})])

\* np.trapz(y, x): (d * (y[1:] + y[:-1]) / 2.0).sum() with d = np.diff(x)
Trapz(ys, xs) ==
    FSum([k \in 1..(Len(xs) - 1) |->
             The({FDiv(p, Two) :
                  p \in {FMul(d, h) : d \in {FSub(xs[k + 1], xs[k])},
                                      h \in {FAdd(ys[k + 1], ys[k])}}})])

\* auc(x, y): fewer than two points are refused with ValueError; x is kept in
\* the order given (roc_curve never returns a decreasing fpr) and the area is
\* np.trapz(y, x)
Auc(xs, ys) == Trapz(ys, xs)

\* the curves roc_curve returns in the two notebooks
Curves ==
    {RocCurve(in[1], in[2], 1, v) :
        in \in LessonProbaInputs, v \in SklearnReleases}
    \cup {RocCurve(in[1], PredictProba(in[2]).male, 1, v) :
              in \in LabProbaInputs, v \in SklearnReleases}

\* roc_auc for each curve of at least two points
Areas ==
    Table([c \in {<<r.fpr, r.tpr>> : r \in {q \in Curves : Len(q.fpr) >= 2}} |->
              Auc(c[1], c[2])])

\* the labels of the test rows and the labels (1 or 2) a penalised model
\* predicts for them; the stratified split puts both genders in y_test
PenalisedInputs ==
    {in \in Vectors({1, 2}, 2, MaxScores) \X Vectors({1, 2}, 2, MaxScores) :
        Len(in[1]) = Len(in[2]) /\ Range(in[1]) = {1, 2}}

\* an integer column as roc_curve reads it
LabelScores(labels) == [i \in 1..Len(labels) |-> FromInt(labels[i])]

\* roc_curve(y_test, <predicted labels>, pos_label=1) and auc of its rates;
\* auc refuses fewer than two points
PenalisedRoc(truth, labels, release) ==
    The({[fpr |-> c.fpr, tpr |-> c.tpr, threshold |-> c.threshold,
          roc_auc |-> IF Len(c.fpr) < 2 THEN NaN ELSE Auc(c.fpr, c.tpr)] :
         c \in {RocCurve(truth, LabelScores(labels), 1, release)}})

PenalisedRocs ==
    Table([k \in PenalisedInputs \X SklearnReleases |->
              PenalisedRoc(k[1][1], k[1][2], k[2])])

(***************************************************************************)
(* The kernel: which cell runs next, and the cells.                        *)
(***************************************************************************)
LessonOrder == <<"baseline", "errors", "predict", "tally", "accuracy",
                 "precision", "recall", "fpr", "alt_fpr", "specificity", "f1",
                 "report", "done">>

LabOrder == <<"xy", "baseline", "preds", "tally", "conmat", "done">>

\* the second part of each notebook, from the cell that binds Y_pp
LessonProbaOrder == <<"proba", "thresh", "conmat_thresh", "roc", "print", "done">>

LabProbaOrder == <<"proba", "thresh", "roc", "done">>

\* the lab's cells on the Ridge and Lasso models
LabPenalisedOrder == <<"ridge_pred", "ridge_roc", "lasso_roc", "done">>

Order ==
    CASE nb = "lesson" -> LessonOrder
      [] nb = "lab" -> LabOrder
      [] nb = "lesson_proba" -> LessonProbaOrder
      [] nb = "lab_proba" -> LabProbaOrder
      [] nb = "lab_penalised" -> LabPenalisedOrder

NextCell(c) == Order[1 + CHOOSE i \in 1..Len(Order) : Order[i] = c]

At(cell) == pc = cell

\* the cell ran to its end and bound the names it assigns
Finish(cell, names) ==
    /\ pc' = NextCell(cell)
    /\ bound' = bound \cup names
    /\ raised' = raised

\* the cell raised: nothing is bound, and the next cell can be run
Raise(cell) ==
    /\ pc' = NextCell(cell)
    /\ bound' = bound
    /\ raised' = raised \cup {cell}

LabVars == <<hsq_gender, lr_predict, y_preds, C_M>>
InputVars == <<nb, y, knn_predictions>>
CountVars == <<tp, fp, tn, fn, printed_errors>>
RatioVars == <<accuracy, precision, recall, fpr, specificity>>
F1Vars == <<precision_1, recall_1, f1_1>>
ProbaVars == <<y_test, predict_proba, Y_pp, threshold, cutoff, printed_positives,
               conmat, tpr, roc_auc, printed_roc>>
RocVars == <<tpr, roc_auc, printed_roc>>
BaselineVars == <<spam, baseline_acc, basline_score>>
ReportVars == <<precision_0, recall_0, f1_0,
                average_precision, average_recall, average_f1>>
RidgeVars == <<pred_Rlr, fpr_Rlr, tpr_Rlr, roc_auc_Rlr>>
LassoVars == <<fpr_Rlr_l1, tpr_Rlr_l1, roc_auc_Rlr_l1>>
PenalisedVars == <<RidgeVars, Rlr_l1_predict, LassoVars>>
LaterVars == <<BaselineVars, ReportVars, PenalisedVars>>

\* baseline_acc = 1. - spam.is_spam.mean()
BaselineCell ==
    /\ nb = "lesson" /\ At("baseline")
    /\ baseline_acc' = OneMinusMean(spam)
    /\ Finish("baseline", {"baseline_acc"})
    /\ UNCHANGED <<InputVars, predicted, n_errors, CountVars, RatioVars, F1Vars,
                   LabVars, alt_fpr, ProbaVars, spam, basline_score, ReportVars,
                   PenalisedVars>>

\* print("Number of classification errors:", np.abs(knn_predictions-y).sum())
ErrorsCell ==
    /\ nb = "lesson" /\ At("errors")
    /\ \E o \in ElementwiseOutcomes(Len(y.val), Len(knn_predictions)) :
         IF o = "ok"
         THEN /\ n_errors' = AbsDiffSum(knn_predictions, y.val)
              /\ Finish("errors", {"n_errors"})
         ELSE /\ n_errors' = n_errors
              /\ Raise("errors")
    /\ UNCHANGED <<InputVars, predicted, CountVars, RatioVars, F1Vars, LabVars, alt_fpr, ProbaVars, LaterVars>>

\* predicted = knn.predict(X): the same classifier on the same X
\* once X is the breast-cancer frame, the classifier fitted on the word counts
\* refuses its columns
PredictCell ==
    /\ nb = "lesson" /\ At("predict")
    /\ IF "bcw" \in bound
       THEN /\ predicted' = predicted
            /\ Raise("predict")
       ELSE /\ predicted' = knn_predictions
            /\ Finish("predict", {"predicted"})
    /\ UNCHANGED <<InputVars, n_errors, CountVars, RatioVars, F1Vars, LabVars, alt_fpr, ProbaVars, LaterVars>>

\* tp, fp, tn, fn = np.sum(...) of the four masks; print(..., fp+fn)
TallyCell ==
    /\ nb = "lesson" /\ At("tally")
    /\ \E o \in ElementwiseOutcomes(Len(y.val), Len(predicted)) :
         IF o = "ok"
         THEN /\ tp' = TallyTp(y.val, predicted)
              /\ fp' = TallyFp(y.val, predicted)
              /\ tn' = TallyTn(y.val, predicted)
              /\ fn' = TallyFn(y.val, predicted)
              /\ printed_errors' = fp' + fn'
              /\ Finish("tally", {"tp", "fp", "tn", "fn"})
         ELSE /\ UNCHANGED CountVars
              /\ Raise("tally")
    /\ UNCHANGED <<InputVars, predicted, n_errors, RatioVars, F1Vars, LabVars, alt_fpr, ProbaVars, LaterVars>>

\* a cell that reads the counts raises NameError while they are unbound
CountsBound == {"tp", "fp", "tn", "fn"} \subseteq bound

\* print(float(tp + tn) / total_population)
AccuracyCell ==
    /\ nb = "lesson" /\ At("accuracy")
    /\ IF CountsBound
       THEN /\ accuracy' = CellValues[<<tp, fp, tn, fn>>].accuracy
            /\ Finish("accuracy", {"accuracy"})
       ELSE /\ accuracy' = accuracy
            /\ Raise("accuracy")
    /\ UNCHANGED <<InputVars, predicted, n_errors, CountVars,
                   precision, recall, fpr, specificity, F1Vars, LabVars, alt_fpr, ProbaVars, LaterVars>>

\* print(float(tp) / (tp + fp))
PrecisionCell ==
    /\ nb = "lesson" /\ At("precision")
    /\ IF CountsBound
       THEN /\ precision' = CellValues[<<tp, fp, tn, fn>>].precision
            /\ Finish("precision", {"precision"})
       ELSE /\ precision' = precision
            /\ Raise("precision")
    /\ UNCHANGED <<InputVars, predicted, n_errors, CountVars,
                   accuracy, recall, fpr, specificity, F1Vars, LabVars, alt_fpr, ProbaVars, LaterVars>>

\* print(float(tp) / (tp + fn))
RecallCell ==
    /\ nb = "lesson" /\ At("recall")
    /\ IF CountsBound
       THEN /\ recall' = CellValues[<<tp, fp, tn, fn>>].recall
            /\ Finish("recall", {"recall"})
       ELSE /\ recall' = recall
            /\ Raise("recall")
    /\ UNCHANGED <<InputVars, predicted, n_errors, CountVars,
                   accuracy, precision, fpr, specificity, F1Vars, LabVars, alt_fpr, ProbaVars, LaterVars>>

\* print(float(fp) / (tn + fp))
FprCell ==
    /\ nb = "lesson" /\ At("fpr")
    /\ IF CountsBound
       THEN /\ fpr' = CellValues[<<tp, fp, tn, fn>>].fpr
            /\ Finish("fpr", {"fpr"})
       ELSE /\ fpr' = fpr
            /\ Raise("fpr")
    /\ UNCHANGED <<InputVars, predicted, n_errors, CountVars,
                   accuracy, precision, recall, specificity, F1Vars, LabVars, alt_fpr, ProbaVars, LaterVars>>

\* # alternative way to calculate the same
\* 1 - recall_score(y==0, predicted==0): the cell shows the value (kept in
\* alt_fpr); arrays of different lengths are refused with ValueError
AltFprCell ==
    /\ nb = "lesson" /\ At("alt_fpr")
    /\ IF Len(y.val) = Len(predicted)
       THEN /\ alt_fpr' = AlternativeFpr(y.val, predicted)
            /\ Finish("alt_fpr", {"alt_fpr"})
       ELSE /\ alt_fpr' = alt_fpr
            /\ Raise("alt_fpr")
    /\ UNCHANGED <<InputVars, predicted, n_errors, CountVars, RatioVars,
                   F1Vars, LabVars, ProbaVars, LaterVars>>

\* specificity = float(tn) / (tn + fp)
SpecificityCell ==
    /\ nb = "lesson" /\ At("specificity")
    /\ IF CountsBound
       THEN /\ specificity' = CellValues[<<tp, fp, tn, fn>>].specificity
            /\ Finish("specificity", {"specificity"})
       ELSE /\ specificity' = specificity
            /\ Raise("specificity")
    /\ UNCHANGED <<InputVars, predicted, n_errors, CountVars,
                   accuracy, precision, recall, fpr, F1Vars, LabVars, alt_fpr, ProbaVars, LaterVars>>

\* precision_1, recall_1; f1_1 = 2/(1/recall_1+1/precision_1)
F1Cell ==
    /\ nb = "lesson" /\ At("f1")
    /\ IF CountsBound
       THEN /\ precision_1' = CellValues[<<tp, fp, tn, fn>>].precision
            /\ recall_1' = CellValues[<<tp, fp, tn, fn>>].recall
            /\ f1_1' = CellValues[<<tp, fp, tn, fn>>].f1_1
            /\ Finish("f1", {"precision_1", "recall_1", "f1_1"})
       ELSE /\ UNCHANGED F1Vars
            /\ Raise("f1")
    /\ UNCHANGED <<InputVars, predicted, n_errors, CountVars, RatioVars, LabVars, alt_fpr, ProbaVars, LaterVars>>

\* the report cell binds the scores of the two classes and their averages, or
\* raises in its first statement: sklearn refuses arrays of different lengths
ReportCell ==
    /\ nb = "lesson" /\ At("report")
    /\ IF Len(y.val) = Len(predicted)
       THEN /\ \E v \in {ReportValues[ReportKey(baseline_acc, y.val, predicted)]} :
                 /\ precision_1' = v.precision_1 /\ precision_0' = v.precision_0
                 /\ recall_1' = v.recall_1 /\ recall_0' = v.recall_0
                 /\ f1_1' = v.f1_1 /\ f1_0' = v.f1_0
                 /\ average_precision' = v.average_precision
                 /\ average_recall' = v.average_recall
                 /\ average_f1' = v.average_f1
            /\ Finish("report", {"precision_1", "precision_0", "recall_1",
                                 "recall_0", "f1_1", "f1_0", "average_precision",
                                 "average_recall", "average_f1"})
       ELSE /\ UNCHANGED <<F1Vars, ReportVars>>
            /\ Raise("report")
    /\ UNCHANGED <<InputVars, predicted, n_errors, CountVars, RatioVars, LabVars,
                   alt_fpr, ProbaVars, BaselineVars, PenalisedVars>>

\* y = bcw['class'].map(lambda x: 1 if x == 4 else 0); X = bcw.iloc[:, 1:-1]
\* the labels of the second data set take the name y
RebindCell ==
    /\ nb = "lesson" /\ At("rebind")
    /\ \E labels \in BcwLabels : y' = Series(RangeIndex(Len(labels)), labels)
    /\ pc' = "done"
    /\ bound' = bound \cup {"bcw", "X"}
    /\ raised' = raised
    /\ UNCHANGED <<nb, knn_predictions, predicted, n_errors, CountVars, RatioVars,
                   F1Vars, LabVars, alt_fpr, ProbaVars, LaterVars>>

\* the report cell is the last cell of the first run to bind a name
InitialRunDone == "average_f1" \in bound \/ "report" \in raised

RerunCells == (Range(LessonOrder) \ {"done"}) \cup {"rebind"}

\* after a run has reached the end of the first part, the cells are run again
\* from any cell downwards, or the cell that rebinds y is run
SelectCell ==
    /\ nb = "lesson" /\ InitialRunDone /\ At("done")
    /\ pc' \in RerunCells
    /\ UNCHANGED <<bound, raised, InputVars, predicted, n_errors, CountVars,
                   RatioVars, F1Vars, LabVars, alt_fpr, ProbaVars, LaterVars>>

LessonVars == <<knn_predictions, predicted, n_errors, RatioVars, F1Vars>>

\* df = hsq[...]; X = df[features]; y = df['gender']
XyCell ==
    /\ nb = "lab" /\ At("xy")
    /\ y' = GenderOf(hsq_gender)
    /\ Finish("xy", {"y"})
    /\ UNCHANGED <<nb, LessonVars, CountVars, LabVars, alt_fpr, ProbaVars, LaterVars>>

\* basline_score = y.value_counts()[1] / len(y): the count of the label 1;
\* KeyError when no row has it
LabBaselineCell ==
    /\ nb = "lab" /\ At("baseline")
    /\ IF 1 \in Range(y.val)
       THEN /\ basline_score' = Num(NpSum(EqMask(y.val, 1)), Len(y.val))
            /\ Finish("baseline", {"basline_score"})
       ELSE /\ basline_score' = basline_score
            /\ Raise("baseline")
    /\ UNCHANGED <<nb, y, LessonVars, CountVars, LabVars, alt_fpr, ProbaVars,
                   spam, baseline_acc, ReportVars, PenalisedVars>>

\* y_preds = pd.Series(lr_model.predict(X)): a fresh index 0..N-1
PredsCell ==
    /\ nb = "lab" /\ At("preds")
    /\ y_preds' = Series(RangeIndex(Len(lr_predict)), lr_predict)
    /\ Finish("preds", {"y_preds"})
    /\ UNCHANGED <<nb, y, LessonVars, CountVars, hsq_gender, lr_predict, C_M, alt_fpr, ProbaVars, LaterVars>>

\* tp = np.sum((y == 2) & (y_preds == 2)), fp, tn, fn likewise
LabTallyCell ==
    /\ nb = "lab" /\ At("tally")
    /\ tp' = LabTp(y, y_preds)
    /\ fp' = LabFp(y, y_preds)
    /\ tn' = LabTn(y, y_preds)
    /\ fn' = LabFn(y, y_preds)
    /\ printed_errors' = fp' + fn'
    /\ Finish("tally", {"tp", "fp", "tn", "fn"})
    /\ UNCHANGED <<nb, y, LessonVars, LabVars, alt_fpr, ProbaVars, LaterVars>>

\* C_M = confusion_matrix(y, y_preds)
ConfusionMatrixCell ==
    /\ nb = "lab" /\ At("conmat")
    /\ C_M' = ConfusionMatrix(y.val, y_preds.val)
    /\ Finish("conmat", {"C_M"})
    /\ UNCHANGED <<nb, y, LessonVars, CountVars, hsq_gender, lr_predict, y_preds, alt_fpr, ProbaVars, LaterVars>>

\* what the first part of the notebooks binds
PartOneVars == <<y, knn_predictions, predicted, n_errors, CountVars,
                 accuracy, precision, recall, specificity, F1Vars, LabVars, alt_fpr>>

\* Y_pp = pd.DataFrame(knn.predict_proba(X_test),
\*                     columns=['class_0_pp','class_1_pp'])
\* (only the column the later cells read is kept)
LessonProbaCell ==
    /\ nb = "lesson_proba" /\ At("proba")
    /\ Y_pp' = [class_1_pp |-> predict_proba]
    /\ Finish("proba", {"Y_pp"})
    /\ UNCHANGED <<nb, PartOneVars, LaterVars, fpr, y_test, predict_proba, threshold, cutoff,
                   printed_positives, conmat, RocVars>>

\* the lesson's cell that adds the column pred_class_thresh10 (its text: the
\* threshold for labeling class 1 lowered from 50% to 10%); the threshold is
\* drawn from CutoffValues
LessonThreshCell ==
    /\ nb = "lesson_proba" /\ At("thresh")
    /\ \E t \in CutoffValues :
         /\ cutoff' = t
         /\ Y_pp' = [class_1_pp |-> Y_pp.class_1_pp,
                     pred_class_thresh10 |->
                         ThresholdPredictions(Y_pp.class_1_pp, t)]
    /\ Finish("thresh", {"pred_class_thresh10"})
    /\ UNCHANGED <<nb, PartOneVars, LaterVars, fpr, y_test, predict_proba, threshold,
                   printed_positives, conmat, RocVars>>

\* conmat = np.array(confusion_matrix(y_test, Y_pp.pred_class_thresh10.values,
\*                                    labels=[1,0]))
ThreshConmatCell ==
    /\ nb = "lesson_proba" /\ At("conmat_thresh")
    /\ conmat' = ConfusionMatrixOf(y_test, Y_pp.pred_class_thresh10, <<1, 0>>)
    /\ Finish("conmat_thresh", {"conmat"})
    /\ UNCHANGED <<nb, PartOneVars, LaterVars, fpr, y_test, predict_proba, Y_pp, threshold,
                   cutoff, printed_positives, RocVars>>

\* Y_pp = pd.DataFrame(lr_model.predict_proba(X_test),
\*                     columns=['male','female'])
LabProbaCell ==
    /\ nb = "lab_proba" /\ At("proba")
    /\ Y_pp' = PredictProba(predict_proba)
    /\ Finish("proba", {"Y_pp"})
    /\ UNCHANGED <<nb, PartOneVars, LaterVars, fpr, y_test, predict_proba, threshold, cutoff,
                   printed_positives, conmat, RocVars>>

\* threshold = Y_pp['male'].mean()
\* Y_pp['predFP'] = [1 if i >= threshold - 0.1 else 0
\*                   for i in Y_pp['female'].values]
\* print('false positves:', Y_pp.predFP.sum())
LabThreshCell ==
    /\ nb = "lab_proba" /\ At("thresh")
    /\ threshold' = Thresholds[Y_pp.male].threshold
    /\ cutoff' = Thresholds[Y_pp.male].cutoff
    /\ Y_pp' = [male |-> Y_pp.male, female |-> Y_pp.female,
                predFP |-> ThresholdPredictions(Y_pp.female, cutoff')]
    /\ printed_positives' = SumSeq(Y_pp'.predFP)
    /\ Finish("thresh", {"threshold", "predFP"})
    /\ UNCHANGED <<nb, PartOneVars, LaterVars, fpr, y_test, predict_proba, conmat, RocVars>>

\* the cell binds fpr, tpr and threshold, and then roc_auc unless auc raises
RocAucCell(cell, curve) ==
    /\ fpr' = curve.fpr
    /\ tpr' = curve.tpr
    /\ threshold' = curve.threshold
    /\ pc' = NextCell(cell)
    /\ IF Len(curve.fpr) < 2
       THEN /\ roc_auc' = roc_auc
            /\ bound' = bound \cup {"fpr", "tpr"}
            /\ raised' = raised \cup {cell}
       ELSE /\ roc_auc' = Areas[<<curve.fpr, curve.tpr>>]
            /\ bound' = bound \cup {"fpr", "tpr", "roc_auc"}
            /\ raised' = raised

\* fpr, tpr, threshold = roc_curve(y_test, Y_pp.class_1_pp)
\* roc_auc = auc(fpr, tpr)
LessonRocCell ==
    /\ nb = "lesson_proba" /\ At("roc")
    /\ \E v \in SklearnReleases :
         \E curve \in {RocCurve(y_test, Y_pp.class_1_pp, 1, v)} :
            RocAucCell("roc", curve)
    /\ UNCHANGED <<nb, PartOneVars, LaterVars, y_test, predict_proba, Y_pp, cutoff,
                   printed_positives, conmat, printed_roc>>

\* print(np.array(list(zip(fpr,tpr,threshold))))
PrintRocCell ==
    /\ nb = "lesson_proba" /\ At("print")
    /\ IF {"fpr", "tpr"} \subseteq bound
       THEN /\ printed_roc' = [k \in 1..Len(fpr) |-> <<fpr[k], tpr[k], threshold[k]>>]
            /\ Finish("print", {})
       ELSE /\ printed_roc' = printed_roc
            /\ Raise("print")
    /\ UNCHANGED <<nb, PartOneVars, LaterVars, fpr, y_test, predict_proba, Y_pp, threshold,
                   cutoff, printed_positives, conmat, tpr, roc_auc>>

\* fpr, tpr, threshold = roc_curve(y_test, Y_pp.male, pos_label=1)
\* roc_auc = auc(fpr, tpr)
LabRocCell ==
    /\ nb = "lab_proba" /\ At("roc")
    /\ \E v \in SklearnReleases :
         \E curve \in {RocCurve(y_test, Y_pp.male, 1, v)} :
            RocAucCell("roc", curve)
    /\ UNCHANGED <<nb, PartOneVars, LaterVars, y_test, predict_proba, Y_pp, cutoff,
                   printed_positives, conmat, printed_roc>>

\* Y_pp['pred_Rlr'] = pd.Series(lr.predict(X_test))
RidgePredCell ==
    /\ nb = "lab_penalised" /\ At("ridge_pred")
    /\ pred_Rlr' \in {in[2] : in \in {k \in PenalisedInputs : k[1] = y_test}}
    /\ Finish("ridge_pred", {"pred_Rlr"})
    /\ UNCHANGED <<nb, PartOneVars, fpr, ProbaVars, BaselineVars, ReportVars,
                   fpr_Rlr, tpr_Rlr, roc_auc_Rlr, Rlr_l1_predict, LassoVars>>

\* fpr_Rlr, tpr_Rlr, threshold = roc_curve(y_test, Y_pp.pred_Rlr, pos_label=1)
\* roc_auc_Rlr = auc(fpr_Rlr, tpr_Rlr)
RidgeRocCell ==
    /\ nb = "lab_penalised" /\ At("ridge_roc")
    /\ \E v \in SklearnReleases :
         \E roc \in {PenalisedRocs[<<<<y_test, pred_Rlr>>, v>>]} :
            /\ fpr_Rlr' = roc.fpr
            /\ tpr_Rlr' = roc.tpr
            /\ threshold' = roc.threshold
            /\ pc' = NextCell("ridge_roc")
            /\ IF Len(roc.fpr) < 2
               THEN /\ roc_auc_Rlr' = roc_auc_Rlr
                    /\ bound' = bound \cup {"fpr_Rlr", "tpr_Rlr"}
                    /\ raised' = raised \cup {"ridge_roc"}
               ELSE /\ roc_auc_Rlr' = roc.roc_auc
                    /\ bound' = bound \cup {"fpr_Rlr", "tpr_Rlr", "roc_auc_Rlr"}
                    /\ raised' = raised
    /\ UNCHANGED <<nb, PartOneVars, fpr, BaselineVars, ReportVars, y_test,
                   predict_proba, Y_pp, cutoff, printed_positives, conmat, RocVars,
                   pred_Rlr, Rlr_l1_predict, LassoVars>>

\* fpr_Rlr_l1, tpr_Rlr_l1, threshold =
\*     roc_curve(y_test, Rlr_l1.predict(X_test), pos_label=1)
\* roc_auc_Rlr_l1 = auc(fpr_Rlr_l1, tpr_Rlr_l1)
LassoRocCell ==
    /\ nb = "lab_penalised" /\ At("lasso_roc")
    /\ \E v \in SklearnReleases :
         \E roc \in {PenalisedRocs[<<<<y_test, Rlr_l1_predict>>, v>>]} :
            /\ fpr_Rlr_l1' = roc.fpr
            /\ tpr_Rlr_l1' = roc.tpr
            /\ threshold' = roc.threshold
            /\ pc' = NextCell("lasso_roc")
            /\ IF Len(roc.fpr) < 2
               THEN /\ roc_auc_Rlr_l1' = roc_auc_Rlr_l1
                    /\ bound' = bound \cup {"fpr_Rlr_l1", "tpr_Rlr_l1"}
                    /\ raised' = raised \cup {"lasso_roc"}
               ELSE /\ roc_auc_Rlr_l1' = roc.roc_auc
                    /\ bound' = bound \cup {"fpr_Rlr_l1", "tpr_Rlr_l1",
                                             "roc_auc_Rlr_l1"}
                    /\ raised' = raised
    /\ UNCHANGED <<nb, PartOneVars, fpr, BaselineVars, ReportVars, y_test,
                   predict_proba, Y_pp, cutoff, printed_positives, conmat, RocVars,
                   RidgeVars, Rlr_l1_predict>>

NoSeries == Series(<<>>, <<>>)

\* the names the later cells bind, before they run
ReportUnbound ==
    /\ baseline_acc = NaN /\ basline_score = NaN
    /\ precision_0 = NaN /\ recall_0 = NaN /\ f1_0 = NaN
    /\ average_precision = NaN /\ average_recall = NaN /\ average_f1 = NaN

\* the names the cells on the penalised models bind, before they run
PenalisedUnbound ==
    /\ pred_Rlr = <<>>
    /\ fpr_Rlr = <<>> /\ tpr_Rlr = <<>> /\ roc_auc_Rlr = NaN
    /\ fpr_Rlr_l1 = <<>> /\ tpr_Rlr_l1 = <<>> /\ roc_auc_Rlr_l1 = NaN

LaterUnbound == ReportUnbound /\ PenalisedUnbound /\ Rlr_l1_predict = <<>>

\* the names of the second part, before its cells run
ProbaUnbound ==
    /\ Y_pp = <<>>
    /\ threshold = NaN /\ cutoff = NaN
    /\ printed_positives = 0
    /\ conmat = <<>>
    /\ tpr = <<>> /\ roc_auc = NaN /\ printed_roc = <<>>

Unbound ==
    /\ raised = {}
    /\ predicted = <<>>
    /\ tp = 0 /\ fp = 0 /\ tn = 0 /\ fn = 0
    /\ n_errors = 0 /\ printed_errors = 0
    /\ accuracy = NaN /\ precision = NaN /\ recall = NaN
    /\ fpr = NaN /\ specificity = NaN
    /\ precision_1 = NaN /\ recall_1 = NaN /\ f1_1 = NaN
    /\ alt_fpr = NaN
    /\ y_preds = NoSeries
    /\ C_M = <<>>

InitLesson ==
    /\ nb = "lesson"
    /\ pc = "baseline"
    /\ bound = {"spam", "y", "knn_predictions"}
    /\ \E in \in LessonInputs :
         /\ spam = IsSpam(in[1])
         /\ y = Series(RangeIndex(Len(in[1])), in[1])
         /\ knn_predictions = in[2]
    /\ LaterUnbound
    /\ hsq_gender = <<>>
    /\ lr_predict = <<>>
    /\ Unbound
    /\ y_test = <<>> /\ predict_proba = <<>>
    /\ ProbaUnbound

InitLab ==
    /\ nb = "lab"
    /\ pc = "xy"
    /\ bound = {"hsq", "lr_model"}
    /\ \E in \in LabInputs :
         /\ hsq_gender = in[1]
         /\ lr_predict = in[2]
    /\ y = NoSeries
    /\ knn_predictions = <<>>
    /\ Unbound
    /\ y_test = <<>> /\ predict_proba = <<>>
    /\ spam = <<>> /\ LaterUnbound
    /\ ProbaUnbound

PartOneUnbound ==
    /\ y = NoSeries
    /\ knn_predictions = <<>>
    /\ hsq_gender = <<>>
    /\ lr_predict = <<>>
    /\ Unbound

\* the lesson from its cell Y_pp = ...: y_test holds classes 0 and 1
InitLessonProba ==
    /\ nb = "lesson_proba"
    /\ pc = "proba"
    /\ bound = {"knn", "X_test", "y_test"}
    /\ \E in \in LessonProbaInputs :
         /\ y_test = in[1]
         /\ predict_proba = in[2]
    /\ PartOneUnbound
    /\ spam = <<>> /\ LaterUnbound
    /\ ProbaUnbound

\* the lab from its cell Y_pp = ...: the stratified split puts both genders
\* (1 and 2) in y_test
InitLabProba ==
    /\ nb = "lab_proba"
    /\ pc = "proba"
    /\ bound = {"lr_model", "X_test", "y_test"}
    /\ \E in \in LabProbaInputs :
         /\ y_test = in[1]
         /\ predict_proba = in[2]
    /\ PartOneUnbound
    /\ spam = <<>> /\ LaterUnbound
    /\ ProbaUnbound

\* the lab from its cell Y_pp['pred_Rlr'] = ...: lr and Rlr_l1 are fitted,
\* Rlr_l1.predict(X_test) is the labels the Lasso model gives the test rows
InitLabPenalised ==
    /\ nb = "lab_penalised"
    /\ pc = "ridge_pred"
    /\ bound = {"lr", "Rlr_l1", "X_test", "y_test", "Y_pp"}
    /\ \E in \in PenalisedInputs :
         /\ y_test = in[1]
         /\ Rlr_l1_predict = in[2]
    /\ predict_proba = <<>>
    /\ PartOneUnbound
    /\ spam = <<>> /\ ReportUnbound /\ PenalisedUnbound
    /\ ProbaUnbound

Init ==
    InitLesson \/ InitLab \/ InitLessonProba \/ InitLabProba \/ InitLabPenalised

Next ==
    \/ BaselineCell
    \/ LabBaselineCell
    \/ ErrorsCell
    \/ PredictCell
    \/ TallyCell
    \/ AccuracyCell
    \/ PrecisionCell
    \/ RecallCell
    \/ FprCell
    \/ AltFprCell
    \/ SpecificityCell
    \/ F1Cell
    \/ ReportCell
    \/ XyCell
    \/ PredsCell
    \/ LabTallyCell
    \/ ConfusionMatrixCell
    \/ LessonProbaCell
    \/ LessonThreshCell
    \/ ThreshConmatCell
    \/ LabProbaCell
    \/ LabThreshCell
    \/ LessonRocCell
    \/ PrintRocCell
    \/ LabRocCell
    \/ RidgePredCell
    \/ RidgeRocCell
    \/ LassoRocCell

Spec == Init /\ [][Next]_vars

\* the lesson run from its top on both classes, its cells then run again in
\* any order
RerunInit ==
    /\ nb = "lesson"
    /\ pc = "baseline"
    /\ bound = {"spam", "y", "knn_predictions"}
    /\ \E in \in RerunInputs :
         /\ spam = IsSpam(in[1])
         /\ y = Series(RangeIndex(Len(in[1])), in[1])
         /\ knn_predictions = in[2]
    /\ LaterUnbound
    /\ hsq_gender = <<>>
    /\ lr_predict = <<>>
    /\ Unbound
    /\ y_test = <<>> /\ predict_proba = <<>>
    /\ ProbaUnbound

RerunNext ==
    \/ BaselineCell
    \/ ErrorsCell
    \/ PredictCell
    \/ TallyCell
    \/ AccuracyCell
    \/ PrecisionCell
    \/ RecallCell
    \/ FprCell
    \/ AltFprCell
    \/ SpecificityCell
    \/ F1Cell
    \/ ReportCell
    \/ RebindCell
    \/ SelectCell

RerunSpec == RerunInit /\ [][RerunNext]_vars

(***************************************************************************)
(* Properties.                                                             *)
(***************************************************************************)
\* the documentation's formula for the F1 score, on the precision and recall
\* the cells compute from the counts c
F1Score ==
    [c \in Tallies |-> F1Formula(CellValues[c].precision, CellValues[c].recall)]

\* |a - b| as a multiple of 2^MinExp(a, b), for finite a and b
Gap(a, b) ==
    LET sa == Scaled(a, MinExp(a, b))
        sb == Scaled(b, MinExp(a, b))
    IN  IF BCmp(sa, sb) >= 0 THEN BSub(sa, sb) ELSE BSub(sb, sa)

\* |a - b| <= 2^(-k), for finite a and b (exact)
Within(a, b, k) ==
    \/ a = b
    \/ IF MinExp(a, b) + k <= 0
       THEN BCmp(Gap(a, b), BShl(BOne, -(MinExp(a, b) + k))) <= 0
       ELSE BCmp(BShl(Gap(a, b), MinExp(a, b) + k), BOne) <= 0

\* |a - b| <= 2^(-k) * max(a, b), for finite a and b (exact)
Near(a, b, k) ==
    \/ a = b
    \/ BCmp(BShl(Gap(a, b), k), Scaled(FMax(a, b), MinExp(a, b))) <= 0

Binary(v) == \A i \in 1..Len(v) : v[i] \in {0, 1}

\* the lesson's two vectors are a valid input of the tally
ValidInput ==
    /\ Len(y.val) = Len(predicted)
    /\ Len(y.val) >= 1
    /\ Binary(y.val)
    /\ Binary(predicted)

Tallied == nb = "lesson" /\ CountsBound

\* the tally cell has been run (to its end or not)
TallyRan == nb = "lesson" /\ pc \notin {"baseline", "errors", "predict", "tally"}

IndexCount(l, p, a, b) == Cardinality({i \in 1..Len(l) : l[i] = a /\ p[i] = b})

\* C1: for label and prediction vectors of the same length N >= 1 over {0,1},
\* the tally gives four non-negative integers with tp + fp + tn + fn = N.
C1_TallySumsToN ==
    (Tallied /\ ValidInput) =>
        /\ tp >= 0 /\ fp >= 0 /\ tn >= 0 /\ fn >= 0
        /\ tp + fp + tn + fn = Len(y.val)

C1_Witness ==
    /\ Tallied /\ ValidInput
    /\ Len(y.val) = 3
    /\ tp = 1 /\ fp = 1 /\ fn = 1

\* C2: tp counts the indices with label 1 and prediction 1, fp label 0 and
\* prediction 1, tn label 0 and prediction 0, fn label 1 and prediction 0; labels
\* [1,1,0,0,1,0] with predictions [1,0,0,1,1,0] give tp=2, fp=1, tn=2, fn=1.
C2_TallyCountsCells ==
    (Tallied /\ Len(y.val) = Len(predicted)) =>
        /\ tp = IndexCount(y.val, predicted, 1, 1)
        /\ fp = IndexCount(y.val, predicted, 0, 1)
        /\ tn = IndexCount(y.val, predicted, 0, 0)
        /\ fn = IndexCount(y.val, predicted, 1, 0)
        /\ (y.val = <<1, 1, 0, 0, 1, 0>> /\ predicted = <<1, 0, 0, 1, 1, 0>>)
              => (tp = 2 /\ fp = 1 /\ tn = 2 /\ fn = 1)

C2_Witness ==
    /\ Tallied
    /\ y.val = <<1, 1, 0, 0, 1, 0>> /\ predicted = <<1, 0, 0, 1, 1, 0>>
    /\ tp = 2 /\ fp = 1 /\ tn = 2 /\ fn = 1

\* C3: the manually calculated tp, fp, tn, fn equal the four cells of the
\* library confusion matrix of the same two vectors, which pairs labels and
\* predictions by position; in the lesson (positive class 1) and in the lab
\* (positive class 2, negative class 1).
C3_ManualTallyEqualsLibrary ==
    /\ (Tallied /\ Len(y.val) = Len(predicted)) =>
          LET cm == ConfusionMatrix(y.val, predicted)
          IN  /\ tp = Cell(cm, 1, 1) /\ fp = Cell(cm, 0, 1)
              /\ tn = Cell(cm, 0, 0) /\ fn = Cell(cm, 1, 0)
    /\ (nb = "lab" /\ "C_M" \in bound) =>
          /\ tp = Cell(C_M, 2, 2) /\ fp = Cell(C_M, 1, 2)
          /\ tn = Cell(C_M, 1, 1) /\ fn = Cell(C_M, 2, 1)

C5_TallyValidates ==
    (TallyRan /\ ~ValidInput) => ("tally" \in raised /\ ~CountsBound)

\* the indices on which label and prediction agree
Agreeing == {i \in 1..Len(y.val) : y.val[i] = predicted[i]}

HarmonicF1 == "f1_1" \in bound /\ "f1_0" \notin bound

\* precision and recall are numbers, not both 0
F1Defined ==
    /\ Tallied /\ HarmonicF1
    /\ IsNum(precision_1) /\ IsNum(recall_1)
    /\ ~(IsZero(precision_1) /\ IsZero(recall_1))

C8_F1UndefinedExactly ==
    (Tallied /\ HarmonicF1) =>
        (IsNum(f1_1) <=> (tp + fp > 0 /\ tp + fn > 0 /\ tp > 0))

InUnit(v) == FLeq(Zero, v) /\ FLeq(v, One)

\* C10: for counts tallied from a valid input, each of accuracy, precision,
\* recall, specificity, false-positive rate and F1 lies in [0,1] whenever it is
\* defined.
C10_RatiosInUnitInterval ==
    (Tallied /\ ValidInput /\ pc = "report") =>
        \A v \in {accuracy, precision, recall, specificity, fpr, f1_1} :
            IsNum(v) => InUnit(v)

C10_Witness ==
    /\ Tallied /\ ValidInput /\ pc = "report"
    /\ \A v \in {accuracy, precision, recall, specificity, fpr, f1_1} : IsNum(v)
    /\ precision = Num(1, 2) /\ recall = Num(1, 2) /\ fpr = One

\* the lesson ran to its end on a valid input with a negative example in it
NegativesTallied ==
    /\ Tallied /\ ValidInput /\ pc = "done"
    /\ tn + fp > 0

Swapped(v) == [i \in 1..Len(v) |-> 1 - v[i]]

\* C12: replacing every value of the label vector and of the prediction vector
\* by its complement swaps tp with tn and fp with fn, and leaves the accuracy
\* unchanged.
C12_ComplementSwapsCounts ==
    (Tallied /\ ValidInput /\ pc = "done") =>
        /\ TallyTp(Swapped(y.val), Swapped(predicted)) = tn
        /\ TallyTn(Swapped(y.val), Swapped(predicted)) = tp
        /\ TallyFp(Swapped(y.val), Swapped(predicted)) = fn
        /\ TallyFn(Swapped(y.val), Swapped(predicted)) = fp
        /\ accuracy = Num(TallyTp(Swapped(y.val), Swapped(predicted))
                            + TallyTn(Swapped(y.val), Swapped(predicted)),
                          Len(y.val))

C12_Witness ==
    /\ Tallied /\ ValidInput /\ pc = "done"
    /\ tp = 2 /\ tn = 0 /\ fp = 1 /\ fn = 0
    /\ TallyTn(Swapped(y.val), Swapped(predicted)) = 2
    /\ TallyFn(Swapped(y.val), Swapped(predicted)) = 1
    /\ accuracy = Num(2, 3)

\* the lab's threshold cell has run
LabThresholded == nb = "lab_proba" /\ "predFP" \in bound

\* score >= t, spelled as "equal or not below"
AtOrAbove(score, t) == score = t \/ ~FLeq(score, t)

ThreshTallied == nb = "lesson_proba" /\ "conmat" \in bound

\* with labels=[1,0]: conmat[1][2] counts the positives predicted negative and
\* conmat[2][1] the negatives predicted positive
FnOf(cm) == cm[1][2]
FpOf(cm) == cm[2][1]

\* the confusion matrix of the same labels and scores at the threshold t
ConmatAt(t) ==
    ConfusionMatrixOf(y_test, ThresholdPredictions(Y_pp.class_1_pp, t), <<1, 0>>)

RocBound == nb \in {"lesson_proba", "lab_proba"} /\ {"fpr", "tpr"} \subseteq bound

\* y_test holds examples of both classes
TwoClasses == Cardinality(Range(y_test)) = 2

\* a < b on finite values
FLess(a, b) == ~FLeq(b, a)

RocScores == IF nb = "lesson_proba" THEN Y_pp.class_1_pp ELSE Y_pp.male

\* C16: for labels with both classes the curve's first point is (0,0), at a
\* threshold above every score (everything classified negative), and its last
\* point is (1,1), at a threshold no score is below (everything classified
\* positive).
C16_CurveFromOriginToOne ==
    (RocBound /\ TwoClasses) =>
        /\ fpr[1] = Zero /\ tpr[1] = Zero
        /\ \A i \in 1..Len(RocScores) : FLess(RocScores[i], threshold[1])
        /\ fpr[Len(fpr)] = One /\ tpr[Len(tpr)] = One
        /\ \A i \in 1..Len(RocScores) : FLeq(threshold[Len(threshold)], RocScores[i])

\* a <= b as numpy compares: false when either is nan
NumLeq(a, b) == IsNum(a) /\ IsNum(b) /\ FLeq(a, b)

\* how many rows whose label is (positive = TRUE) or is not (FALSE) the
\* positive class 1 the predictions p flag
Flagged(p, positive) ==
    Cardinality({i \in 1..Len(y_test) : p[i] = 1 /\ ((y_test[i] = 1) <=> positive)})

\* the rows of the positive class, or of the other class
Support(positive) ==
    Cardinality({i \in 1..Len(y_test) : (y_test[i] = 1) <=> positive})

\* the rate obtained by tallying the predictions "score >= t"
TalliedRate(t, positive) ==
    Num(Flagged(ThresholdPredictions(RocScores, t), positive), Support(positive))

\* C17: along the curve fpr and tpr do not decrease and the threshold does not
\* increase, every point lies in [0,1]x[0,1], and each point is the (fpr, tpr)
\* tallied from the predictions "score >= threshold" at its threshold.
C17_CurvePointsAreTallies ==
    RocBound =>
        /\ Len(fpr) = Len(threshold) /\ Len(tpr) = Len(threshold)
        /\ \A k \in 1..(Len(threshold) - 1) :
             /\ NumLeq(fpr[k], fpr[k + 1])
             /\ NumLeq(tpr[k], tpr[k + 1])
             /\ FLeq(threshold[k + 1], threshold[k])
        /\ \A k \in 1..Len(threshold) :
             /\ IsNum(fpr[k]) /\ InUnit(fpr[k])
             /\ IsNum(tpr[k]) /\ InUnit(tpr[k])
             /\ fpr[k] = TalliedRate(threshold[k], FALSE)
             /\ tpr[k] = TalliedRate(threshold[k], TRUE)

\* the ROC cell has been run
AfterRoc ==
    \/ nb = "lesson_proba" /\ pc \in {"print", "done"}
    \/ nb = "lab_proba" /\ pc = "done"

\* C18: with no positive or no negative example in y_test the ROC cell fails
\* and binds no curve and no area.
C18_DegenerateLabelsFail ==
    (AfterRoc /\ ~TwoClasses) =>
        /\ "roc" \in raised
        /\ bound \cap {"fpr", "tpr", "roc_auc"} = {}

\* (x[n] - x[n-1]) * (y[n] + y[n-1]) / 2
Trapezoid(xs, ys, n) ==
    The({The({FDiv(area, Two) : area \in {FMul(width, heights)}}) :
         width \in {FSub(xs[n], xs[n - 1])},
         heights \in {FAdd(ys[n], ys[n - 1])}})

\* the sum of the trapezoids between the first n points
RECURSIVE TrapezoidSum(_, _, _)
TrapezoidSum(xs, ys, n) ==
    IF n = 2 THEN Trapezoid(xs, ys, 2)
    ELSE The({FAdd(before, last) :
              before \in {TrapezoidSum(xs, ys, n - 1)},
              last \in {Trapezoid(xs, ys, n)}})

\* the ROC cell has bound roc_auc
AucBound == RocBound /\ "roc_auc" \in bound

\* C19: roc_auc is the sum over consecutive points of the curve of
\* (fpr[i+1]-fpr[i])*(tpr[i+1]+tpr[i])/2, and for labels with both classes it
\* is a number in [0,1].
C19_AucIsTrapezoidSumInUnit ==
    AucBound =>
        /\ roc_auc = TrapezoidSum(fpr, tpr, Len(fpr))
        /\ TwoClasses => IsNum(roc_auc) /\ InUnit(roc_auc)

\* a curve of four points whose area is strictly between 0 and 1
C19_Witness ==
    /\ AucBound /\ TwoClasses
    /\ Len(fpr) = 4
    /\ IsNum(roc_auc) /\ FLess(Zero, roc_auc) /\ FLess(roc_auc, One)
    /\ roc_auc = TrapezoidSum(fpr, tpr, 4)

\* the values the images of the scores are drawn from
RemapValues == ProbaValues \cup CutoffValues

\* how many values of S are at or below a
PlaceIn(S, a) == Cardinality({b \in S : ScoreRank[b] <= ScoreRank[a]})

\* the sets of values a strictly increasing function can map the scores onto
Targets(scores) ==
    {T \in SUBSET RemapValues : Cardinality(T) = Cardinality(Range(scores))}

\* the image of the scores under the strictly increasing function from their
\* values onto T: the i-th smallest score value goes to the i-th smallest of T
Remap(scores, T) ==
    The({[i \in 1..Len(scores) |->
             CHOOSE t \in T : PlaceIn(T, t) = PlaceIn(S, scores[i])] :
         S \in {Range(scores)}})

\* C20: for the labels and the release that gave the curve bound by the cell,
\* every image of the scores under a strictly increasing function gives the
\* same sequence of (fpr, tpr) points and the same area.
C20_CurveInvariantUnderIncreasingMaps ==
    RocBound =>
        \A v \in {w \in SklearnReleases :
                      \E curve \in {RocCurve(y_test, RocScores, 1, w)} :
                          /\ curve.fpr = fpr
                          /\ curve.tpr = tpr
                          /\ curve.threshold = threshold} :
            \A scores \in {Remap(RocScores, T) : T \in Targets(RocScores)} :
                \A image \in {RocCurve(y_test, scores, 1, v)} :
                    /\ image.fpr = fpr
                    /\ image.tpr = tpr
                    /\ "roc_auc" \in bound =>
                           Areas[<<image.fpr, image.tpr>>] = roc_auc

\* tied scores and a lower one, mapped onto other values, with a curve of
\* three points or more
C20_Witness ==
    /\ RocBound /\ TwoClasses /\ "roc_auc" \in bound
    /\ Len(fpr) >= 3
    /\ \E i, j \in 1..Len(RocScores) : i # j /\ RocScores[i] = RocScores[j]
    /\ \E i, j \in 1..Len(RocScores) : FLess(RocScores[i], RocScores[j])
    /\ \E T \in Targets(RocScores) :
         \A i \in 1..Len(RocScores) : Remap(RocScores, T)[i] # RocScores[i]

\* y_test[i] is of the positive class of the ROC cells
Positive(i) == y_test[i] = 1

\* every positive example has a strictly greater score than every negative
Separated ==
    \A i, j \in 1..Len(y_test) :
        (Positive(i) /\ ~Positive(j)) => FLess(RocScores[j], RocScores[i])

\* C21: with both classes present, when every positive example scores
\* strictly above every negative one roc_auc is exactly 1, and roc_auc is 1
\* only if tpr is 1 at every point of the curve with fpr > 0.
C21_SeparationGivesAreaOne ==
    (AucBound /\ TwoClasses) =>
        /\ Separated => roc_auc = One
        /\ roc_auc = One =>
               \A k \in 1..Len(fpr) : FLess(Zero, fpr[k]) => tpr[k] = One

\* the scores 0.9, 0.1, 0.8, 0.2 for the labels 1, 0, 1, 0
C21_Witness ==
    /\ AucBound /\ Separated
    /\ y_test = <<1, 0, 1, 0>>
    /\ RocScores = <<Tenth(9), Tenth(1), Tenth(8), Tenth(2)>>
    /\ roc_auc = One
    /\ \E k \in 1..Len(fpr) : fpr[k] = Zero /\ tpr[k] = One

\* C22: when all scores are equal and both classes are present the curve is
\* (0,0), (1,1) and roc_auc is exactly 1/2.
C22_EqualScoresGiveChance ==
    (RocBound /\ TwoClasses /\ Cardinality(Range(RocScores)) = 1) =>
        /\ fpr = <<Zero, One>>
        /\ tpr = <<Zero, One>>
        /\ "roc_auc" \in bound /\ roc_auc = Num(1, 2)

\* the scores 0.5, 0.5, 0.5, 0.5 for the labels 1, 0, 1, 0
C22_Witness ==
    /\ AucBound
    /\ y_test = <<1, 0, 1, 0>>
    /\ RocScores = <<Tenth(5), Tenth(5), Tenth(5), Tenth(5)>>
    /\ fpr = <<Zero, One>> /\ tpr = <<Zero, One>>
    /\ roc_auc = Num(1, 2)

\* the (positive, negative) pairs of test rows
ClassPairs ==
    {p \in (1..Len(y_test)) \X (1..Len(y_test)) : Positive(p[1]) /\ ~Positive(p[2])}

\* the pairs in which the positive row has the greater score, and those in
\* which the two scores are equal
RankedAbove ==
    Cardinality({p \in ClassPairs :
                    ScoreRank[RocScores[p[1]]] > ScoreRank[RocScores[p[2]]]})
RankedEqual ==
    Cardinality({p \in ClassPairs : RocScores[p[1]] = RocScores[p[2]]})

\* the numbers of rows of the curves' inputs
RocRows == {Len(in[1]) : in \in LessonProbaInputs \cup LabProbaInputs}

\* area * P * Q in float64, for each area computed and each P and Q
AreaTimes ==
    Table([t \in {a \in {Areas[c] : c \in DOMAIN Areas} : IsNum(a)}
                    \X RocRows \X RocRows |->
              The({FMul(FMul(t[1], p), q) :
                   p \in {FromInt(t[2])}, q \in {FromInt(t[3])}})])

\* roc_auc * P * Q for the P positive and Q negative rows of y_test
AucTimesPairs ==
    AreaTimes[<<roc_auc, Cardinality({i \in 1..Len(y_test) : Positive(i)}),
                Cardinality({i \in 1..Len(y_test) : ~Positive(i)})>>]

Opposite ==
    The({Table([v \in {w \in ScoreValues : FLeq(w, one)} |-> FSub(one, v)]) :
         one \in {One}})

\* the scores of the opposite polarity
OppositeScores(scores) == [i \in 1..Len(scores) |-> Opposite[scores[i]]]

\* the curves of the notebooks' test rows with the scores swapped
SwappedCurves ==
    {RocCurve(in[1], OppositeScores(in[2]), 1, v) :
        in \in LessonProbaInputs, v \in SklearnReleases}
    \cup {RocCurve(in[1], OppositeScores(PredictProba(in[2]).male), 1, v) :
              in \in LabProbaInputs, v \in SklearnReleases}

\* auc(fpr, tpr) for each of them of at least two points
SwappedAreas ==
    Table([c \in {<<r.fpr, r.tpr>> : r \in {q \in SwappedCurves : Len(q.fpr) >= 2}} |->
              Auc(c[1], c[2])])

\* 1 - a for each area a computed
OneMinusArea ==
    The({Table([a \in {b \in {Areas[c] : c \in DOMAIN Areas} : IsNum(b)} |->
                   FSub(one, a)]) : one \in {One}})

\* the areas under the curve of the swapped scores, one for each release
AreasOfSwapped ==
    {SwappedAreas[<<c.fpr, c.tpr>>] :
        c \in {RocCurve(y_test, OppositeScores(RocScores), 1, v) : v \in SklearnReleases}}

RetalliedPoints ==
    {<<TalliedRate(t, FALSE), TalliedRate(t, TRUE)>> : t \in Range(RocScores)}
        \cup {<<Zero, Zero>>, <<One, One>>}

\* C28: with both classes present, the curve roc_curve returns from its one
\* sorted pass has exactly the points found by thresholding at each distinct
\* score and at the two extremes and tallying again, each once.
C28_SweepEqualsRetally ==
    (RocBound /\ TwoClasses) =>
        /\ {<<fpr[k], tpr[k]>> : k \in 1..Len(fpr)} = RetalliedPoints
        /\ Len(fpr) = Cardinality(RetalliedPoints)

\* C26: after the lab's threshold cell, the number printed as the false
\* positives is the number of test rows of the negative class (gender 1, the
\* column male) that the threshold predicts positive.
C26_PrintedCountIsFalsePositives ==
    (nb = "lab_proba" /\ "predFP" \in bound) =>
        printed_positives =
            Cardinality({i \in 1..Len(y_test) : y_test[i] = 1 /\ Y_pp.predFP[i] = 1})

\* majority_class_N / total_N of a column holding the two classes a and b
MajorityShare(col, a, b) ==
    IF NpSum(EqMask(col, a)) >= NpSum(EqMask(col, b))
    THEN Num(NpSum(EqMask(col, a)), Len(col))
    ELSE Num(NpSum(EqMask(col, b)), Len(col))

\* C25: for a column holding both classes, the baseline accuracy the lesson
\* binds (baseline_acc) and the one the lab binds (basline_score) are the
\* share of the larger class, whichever class that is.
C25_BaselineIsMajorityShare ==
    /\ (nb = "lesson" /\ "baseline_acc" \in bound /\ Range(spam) = {0, 1}) =>
           baseline_acc = MajorityShare(spam, 0, 1)
    /\ (nb = "lab" /\ "basline_score" \in bound /\ Range(y.val) = {1, 2}) =>
           basline_score = MajorityShare(y.val, 1, 2)

\* the report cell has run on a valid input
Reported == nb = "lesson" /\ "average_recall" \in bound /\ ValidInput

\* the average of v1 and v0 weighted by the shares of the labels 1 and 0 in y
SupportWeighted(v1, v0) ==
    FAdd(FMul(Num(CountOf(y.val, 1), Len(y.val)), v1),
         FMul(Num(CountOf(y.val, 0), Len(y.val)), v0))

MetricCellComputes ==
    /\ CountsBound
    /\ \/ AccuracyCell \/ PrecisionCell \/ RecallCell
       \/ FprCell \/ SpecificityCell \/ F1Cell

\* the counts are the tally of the y and the predicted bound now
CountsAreCurrent ==
    /\ Len(y.val) = Len(predicted)
    /\ tp = TallyTp(y.val, predicted)
    /\ fp = TallyFp(y.val, predicted)
    /\ tn = TallyTn(y.val, predicted)
    /\ fn = TallyFn(y.val, predicted)

\* C27: after the first run of the lesson, whichever cells are run again, a
\* metric cell that reads tp, fp, tn or fn computes its value from counts that
\* are the tally of the y and the predicted bound at that moment.
C27_MetricsReadCurrentCounts ==
    [][InitialRunDone /\ MetricCellComputes => CountsAreCurrent]_vars
\* the rows of y_test of one class, and those of them given one label
RowsOf(class) == {i \in 1..Len(y_test) : y_test[i] = class}

RowsGiven(labels, class, label) == {i \in RowsOf(class) : labels[i] = label}

\* the fraction of the rows of a class that are given a label
FractionGiven(labels, class, label) ==
    Num(Cardinality(RowsGiven(labels, class, label)), Cardinality(RowsOf(class)))

\* (1 + t - f) / 2
AreaOfOnePoint(f, t) ==
    IF FLeq(f, t) THEN FDiv(FAdd(One, FSub(t, f)), Two)
    ELSE FDiv(FSub(One, FSub(f, t)), Two)

\* the curve has the point (f, t) and its area is (1 + t - f) / 2, up to 2^-40
CurveOfPoint(fprs, tprs, area, f, t) ==
    /\ \E k \in 1..Len(fprs) : fprs[k] = f /\ tprs[k] = t
    /\ Within(area, AreaOfOnePoint(f, t), 40)

\* the curve drawn for the labels a model predicts is the curve for class 1
CurveForClassOne(labels, fprs, tprs, area) ==
    Range(labels) = {1, 2} =>
        CurveOfPoint(fprs, tprs, area, FractionGiven(labels, 2, 1),
                     FractionGiven(labels, 1, 1))

\* C29: the ROC curves of the Ridge and the Lasso model rank a row predicted 1
\* above a row predicted 2: when a model predicts both labels, its curve has
\* the point (fraction of the class-2 rows predicted 1, fraction of the class-1
\* rows predicted 1) and its area is (1 + tpr - fpr)/2 for these fractions.
C29_PenalisedCurvesAreForClassOne ==
    /\ "roc_auc_Rlr" \in bound =>
           CurveForClassOne(pred_Rlr, fpr_Rlr, tpr_Rlr, roc_auc_Rlr)
    /\ "roc_auc_Rlr_l1" \in bound =>
           CurveForClassOne(Rlr_l1_predict, fpr_Rlr_l1, tpr_Rlr_l1, roc_auc_Rlr_l1)

\* what the cells draw: the curve of the rows predicted 2
PenalisedCurvesRankClassTwoFirst ==
    /\ "roc_auc_Rlr" \in bound /\ Range(pred_Rlr) = {1, 2} =>
           CurveOfPoint(fpr_Rlr, tpr_Rlr, roc_auc_Rlr,
                        FractionGiven(pred_Rlr, 2, 2), FractionGiven(pred_Rlr, 1, 2))
    /\ "roc_auc_Rlr_l1" \in bound /\ Range(Rlr_l1_predict) = {1, 2} =>
           CurveOfPoint(fpr_Rlr_l1, tpr_Rlr_l1, roc_auc_Rlr_l1,
                        FractionGiven(Rlr_l1_predict, 2, 2),
                        FractionGiven(Rlr_l1_predict, 1, 2))
====
